---- MODULE Spec2Model ----
(***************************************************************************)
(* A model of the livre limit order book (src/src/lib.rs): the Orderbook   *)
(* with its two BTreeMaps of price levels and its HashMap order index, and *)
(* the operations add_order, cancel_order and modify_order.  One iteration *)
(* of the `while let` loop of match_order is one step, so that a sweep     *)
(* that never leaves the loop is a behaviour of the model.                 *)
(***************************************************************************)
EXTENDS Integers, Sequences, FiniteSets, TLC

\* ------------------------------------------------------------------ bounds
MaxId == 2
MaxPrice == 2
MaxQty == 2

Ids == 1..MaxId
Prices == 1..MaxPrice
Qtys == 0..MaxQty

\* ------------------------------------------------------- enums and records
OrderType == {"FillAndKill", "GoodTillCancel", "FillOrKill", "GoodForDay", "Market"}
Side == {"Bid", "Ask"}

NoOrder == [order_id |-> 0, order_type |-> "none", side |-> "none", price |-> 0,
            initial_quantity |-> 0, remaining_quantity |-> 0]

\* Order::new
Order(order_type, order_id, side, price, quantity) ==
    [order_id |-> order_id, order_type |-> order_type, side |-> side, price |-> price,
     initial_quantity |-> quantity, remaining_quantity |-> quantity]

\* Order::is_filled
is_filled(o) == o.remaining_quantity = 0

\* Order::order_state
order_state(o) ==
    IF o.initial_quantity = o.remaining_quantity THEN <<"Unfilled">>
    ELSE IF is_filled(o) THEN <<"Filled">>
    ELSE <<"PartialFill", o.initial_quantity - o.remaining_quantity>>

\* Order::fill taking the whole remaining quantity whatever was asked for
fill_whole(o, quantity) ==
    IF quantity > o.remaining_quantity
    THEN [err |-> TRUE, order |-> o]
    ELSE [err |-> FALSE, order |-> [o EXCEPT !.remaining_quantity = 0]]

\* Order::fill: Err(QuantityTooBig) or the order with its remaining quantity reduced
fill(o, quantity) ==
    IF quantity > o.remaining_quantity
    THEN [err |-> TRUE, order |-> o]
    ELSE [err |-> FALSE,
          order |-> [o EXCEPT !.remaining_quantity = o.remaining_quantity - quantity]]

\* ModifyOrder::to_order
to_order(m, order_type) == Order(order_type, m.order_id, m.side, m.price, m.quantity)

\* Trade::new with the two ids taken in the other order
Trade_ids_swapped(taker_order_id, maker_order_id, price, quantity) ==
    [taker_order_id |-> maker_order_id, maker_order_id |-> taker_order_id,
     price |-> price, quantity |-> quantity]

\* Trade::new
Trade(taker_order_id, maker_order_id, price, quantity) ==
    [taker_order_id |-> taker_order_id, maker_order_id |-> maker_order_id,
     price |-> price, quantity |-> quantity]

\* LevelIdentifier::new
LevelIdentifier(price, side) == [price |-> price, side |-> side]

\* the larger of the two, in place of std::cmp::min
max(a, b) == IF a >= b THEN a ELSE b

\* std::cmp::min
min(a, b) == IF a <= b THEN a ELSE b

\* ------------------------------------------------- maps (BTreeMap, HashMap)
EmptyMap == <<>>
insert(m, k, v) == [x \in (DOMAIN m) \cup {k} |-> IF x = k THEN v ELSE m[x]]
remove(m, k) == [x \in (DOMAIN m) \ {k} |-> m[x]]
first_key(m) == CHOOSE k \in DOMAIN m : \A j \in DOMAIN m : k <= j
last_key(m) == CHOOSE k \in DOMAIN m : \A j \in DOMAIN m : j <= k

\* VecDeque::remove(idx), idx counted from 1
remove_at(q, idx) == [i \in 1..(Len(q) - 1) |-> IF i < idx THEN q[i] ELSE q[i + 1]]

RECURSIVE SumQty(_)
\* queue.iter().map(|order| order.remaining_quantity).sum()
SumQty(q) == IF q = <<>> THEN 0 ELSE Head(q).remaining_quantity + SumQty(Tail(q))

\* --------------------------------------------------------------- the state
VARIABLES
    bids,       \* Orderbook.bids: price -> queue of orders
    asks,       \* Orderbook.asks
    orders,     \* Orderbook.orders: order id -> LevelIdentifier
    pc,         \* "idle", "match_order" (inside add_order's sweep), "returned" (the
                \* caller holds the result) or "aborted" (a panic)
    order,      \* the order add_order is working on (or last worked on)
    trade_log,  \* the trade log of that add_order call
    ret,        \* what the last call returned
    pre         \* the book when the current primitive (add_order, cancel_order) began

vars == <<bids, asks, orders, pc, order, trade_log, ret, pre>>

Book == [bids |-> bids, asks |-> asks, orders |-> orders]

\* Orderbook::new
NewBook == [bids |-> EmptyMap, asks |-> EmptyMap, orders |-> EmptyMap]

\* what a call hands back: the operation, its Result ("Ok", the error, "panic", or
\* "pending" while add_order is still sweeping), the Order returned by cancel_order
\* (for modify_order: the order its cancel removed) and the id the call was given
Ret(op, res, val, id) == [op |-> op, res |-> res, val |-> val, id |-> id]

\* ------------------------------------------------------------- can_match
can_match(b, side, price) ==
    IF side = "Ask"
    THEN IF DOMAIN b.bids # {} THEN last_key(b.bids) >= price ELSE FALSE
    ELSE IF DOMAIN b.asks # {} THEN first_key(b.asks) <= price ELSE FALSE

\* -------------------------------------------------------- can_fully_fill
\* The levels in the order the iterator yields them: bids.iter() ascending for
\* an incoming Ask, asks.iter().rev() descending for an incoming Bid.
RECURSIVE Ascending(_)
Ascending(S) == IF S = {} THEN <<>>
                ELSE LET k == CHOOSE x \in S : \A y \in S : x <= y
                     IN <<k>> \o Ascending(S \ {k})
RECURSIVE Descending(_)
Descending(S) == IF S = {} THEN <<>>
                 ELSE LET k == CHOOSE x \in S : \A y \in S : y <= x
                      IN <<k>> \o Descending(S \ {k})

RECURSIVE fully_fill_walk(_, _, _, _, _)
fully_fill_walk(levels, keys, price, quantity, side) ==
    IF keys = <<>> THEN FALSE
    ELSE LET level_price == Head(keys)
             level_quantity == SumQty(levels[level_price])
         IN IF (side = "Ask" /\ level_price < price) \/ (side = "Bid" /\ level_price > price)
            THEN FALSE
            ELSE IF quantity <= level_quantity THEN TRUE
            ELSE fully_fill_walk(levels, Tail(keys), price, quantity - level_quantity, side)

can_fully_fill(b, price, quantity, side) ==
    IF ~can_match(b, side, price) THEN FALSE
    ELSE IF side = "Ask"
         THEN fully_fill_walk(b.bids, Ascending(DOMAIN b.bids), price, quantity, side)
         ELSE fully_fill_walk(b.asks, Descending(DOMAIN b.asks), price, quantity, side)

\* ------------------------------------------------- add_order: admission
is_resting_type(t) == t \in {"GoodForDay", "Market", "GoodTillCancel"}

\* admission with the duplicate-id check made first, for every order type
admission_duplicate_first(b, o) ==
    IF o.order_id \in DOMAIN b.orders THEN "DuplicateOrderId"
    ELSE IF o.order_type = "FillAndKill"
    THEN IF ~can_match(b, o.side, o.price) THEN "UnfillableOrder" ELSE "Ok"
    ELSE IF o.order_type = "FillOrKill"
    THEN IF ~can_fully_fill(b, o.price, o.initial_quantity, o.side)
         THEN "UnfillableOrder" ELSE "Ok"
    ELSE "Ok"

admission(b, o) ==
    IF o.order_type = "FillAndKill"
    THEN IF ~can_match(b, o.side, o.price) THEN "UnfillableOrder" ELSE "Ok"
    ELSE IF o.order_type = "FillOrKill"
    THEN IF ~can_fully_fill(b, o.price, o.initial_quantity, o.side)
         THEN "UnfillableOrder" ELSE "Ok"
    ELSE IF o.order_id \in DOMAIN b.orders THEN "DuplicateOrderId"
    ELSE "Ok"

\* ------------------------------------------------------------ match_level
\* The while loop of match_level over the popped queue.
RECURSIVE level_loop(_, _, _, _, _)
level_loop(idx, best_price, queue, o, log) ==
    IF ~is_filled(o) /\ queue # <<>>
    THEN LET maker_order == Head(queue)
             trade_quantity == min(maker_order.remaining_quantity, o.remaining_quantity)
             mf == fill(maker_order, trade_quantity)
             tf == fill(o, trade_quantity)
             log2 == Append(log, Trade(o.order_id, maker_order.order_id,
                                       best_price, trade_quantity))
         IN IF mf.err \/ tf.err
            THEN [orders |-> idx, queue |-> queue, order |-> o, trade_log |-> log,
                  panic |-> TRUE]
            ELSE IF is_filled(mf.order)
            THEN level_loop(remove(idx, maker_order.order_id), best_price,
                            Tail(queue), tf.order, log2)
            ELSE level_loop(idx, best_price, <<mf.order>> \o Tail(queue), tf.order, log2)
    ELSE [orders |-> idx, queue |-> queue, order |-> o, trade_log |-> log, panic |-> FALSE]

\* match_level on the book b from which the level was popped
match_level(b, best_price, queue, o, log) ==
    LET r == level_loop(b.orders, best_price, queue, o, log)
    IN [bids |-> b.bids,
        asks |-> IF r.queue # <<>> /\ ~r.panic
                 THEN insert(b.asks, best_price, r.queue) ELSE b.asks,
        orders |-> r.orders, order |-> r.order, trade_log |-> r.trade_log,
        panic |-> r.panic, done |-> FALSE]

\* ------------------------------------------------------------ match_order
Exit(b, o, log) ==
    [bids |-> b.bids, asks |-> b.asks, orders |-> b.orders, order |-> o,
     trade_log |-> log, panic |-> FALSE, done |-> TRUE]

\* match_order with the limit tests off by one: a level at exactly the limit
\* price is not matched
match_order_iter_strict(b, o, log) ==
    IF o.side = "Bid"
    THEN IF DOMAIN b.asks = {} THEN Exit(b, o, log)
         ELSE LET best_price == first_key(b.asks)
                  queue == b.asks[best_price]
                  popped == [b EXCEPT !.asks = remove(b.asks, best_price)]
              IN IF best_price >= o.price
                 THEN Exit([popped EXCEPT !.asks = insert(popped.asks, best_price, queue)],
                           o, log)
                 ELSE match_level(popped, best_price, queue, o, log)
    ELSE IF DOMAIN b.bids = {} THEN Exit(b, o, log)
         ELSE LET best_price == last_key(b.bids)
                  queue == b.bids[best_price]
                  popped == [b EXCEPT !.bids = remove(b.bids, best_price)]
              IN IF best_price <= o.price
                 THEN Exit([popped EXCEPT !.bids = insert(popped.bids, best_price, queue)],
                           o, log)
                 ELSE match_level(popped, best_price, queue, o, log)

\* One evaluation of the `while let` of match_order: either the loop is left
\* (done), or one level is popped and handed to match_level.
match_order_iter(b, o, log) ==
    IF o.side = "Bid"
    THEN IF DOMAIN b.asks = {} THEN Exit(b, o, log)
         ELSE LET best_price == first_key(b.asks)
                  queue == b.asks[best_price]
                  popped == [b EXCEPT !.asks = remove(b.asks, best_price)]
              IN IF best_price > o.price
                 THEN Exit([popped EXCEPT !.asks = insert(popped.asks, best_price, queue)],
                           o, log)
                 ELSE match_level(popped, best_price, queue, o, log)
    ELSE IF DOMAIN b.bids = {} THEN Exit(b, o, log)
         ELSE LET best_price == last_key(b.bids)
                  queue == b.bids[best_price]
                  popped == [b EXCEPT !.bids = remove(b.bids, best_price)]
              IN IF best_price < o.price
                 THEN Exit([popped EXCEPT !.bids = insert(popped.bids, best_price, queue)],
                           o, log)
                 ELSE match_level(popped, best_price, queue, o, log)

\* ------------------------------------------------------ add_order: resting
push_back(levels, price, o) ==
    insert(levels, price,
           Append(IF price \in DOMAIN levels THEN levels[price] ELSE <<>>, o))

\* rest with the test of the order type left out
rest_any_type(b, o) ==
    IF ~is_filled(o)
    THEN [bids |-> IF o.side = "Bid" THEN push_back(b.bids, o.price, o) ELSE b.bids,
          asks |-> IF o.side = "Ask" THEN push_back(b.asks, o.price, o) ELSE b.asks,
          orders |-> insert(b.orders, o.order_id, LevelIdentifier(o.price, o.side))]
    ELSE [bids |-> b.bids, asks |-> b.asks, orders |-> b.orders]

\* rest with the is_filled test left out
rest_even_filled(b, o) ==
    IF is_resting_type(o.order_type)
    THEN [bids |-> IF o.side = "Bid" THEN push_back(b.bids, o.price, o) ELSE b.bids,
          asks |-> IF o.side = "Ask" THEN push_back(b.asks, o.price, o) ELSE b.asks,
          orders |-> insert(b.orders, o.order_id, LevelIdentifier(o.price, o.side))]
    ELSE [bids |-> b.bids, asks |-> b.asks, orders |-> b.orders]

rest(b, o) ==
    IF ~is_filled(o) /\ is_resting_type(o.order_type)
    THEN [bids |-> IF o.side = "Bid" THEN push_back(b.bids, o.price, o) ELSE b.bids,
          asks |-> IF o.side = "Ask" THEN push_back(b.asks, o.price, o) ELSE b.asks,
          orders |-> insert(b.orders, o.order_id, LevelIdentifier(o.price, o.side))]
    ELSE [bids |-> b.bids, asks |-> b.asks, orders |-> b.orders]

\* ----------------------------------------------------------- cancel_order
position(queue, order_id) ==
    IF \E i \in 1..Len(queue) : queue[i].order_id = order_id
    THEN CHOOSE i \in 1..Len(queue) :
            /\ queue[i].order_id = order_id
            /\ \A j \in 1..(i - 1) : queue[j].order_id # order_id
    ELSE 0

cancel_order(b, order_id) ==
    IF order_id \in DOMAIN b.orders
    THEN LET level == b.orders[order_id]
             book_side == IF level.side = "Ask" THEN b.asks ELSE b.bids
         IN IF level.price \notin DOMAIN book_side
            THEN [res |-> "panic", book |-> b, val |-> NoOrder]
            ELSE LET queue == book_side[level.price]
                     idx == position(queue, order_id)
                 IN IF idx = 0
                    THEN [res |-> "panic", book |-> b, val |-> NoOrder]
                    ELSE LET q2 == remove_at(queue, idx)
                         IN [res |-> "Ok",
                             book |-> [bids |-> IF level.side = "Ask" THEN b.bids
                                                ELSE insert(b.bids, level.price, q2),
                                       asks |-> IF level.side = "Ask"
                                                THEN insert(b.asks, level.price, q2)
                                                ELSE b.asks,
                                       orders |-> remove(b.orders, order_id)],
                             val |-> queue[idx]]
    ELSE [res |-> "OrderNotFound", book |-> b, val |-> NoOrder]

\* ------------------------------------------------------------------ actions
Init ==
    /\ bids = EmptyMap
    /\ asks = EmptyMap
    /\ orders = EmptyMap
    /\ pc = "idle"
    /\ order = NoOrder
    /\ trade_log = <<>>
    /\ ret = Ret("none", "none", NoOrder, 0)
    /\ pre = NewBook

\* EnterAddOrder with the Index entry written before the admission is decided
EnterAddOrderIndexFirst(b, o, op, old) ==
    LET a == admission(b, o)
    IN /\ bids' = b.bids
       /\ asks' = b.asks
       /\ orders' = IF a = "Ok" THEN b.orders
                    ELSE insert(b.orders, o.order_id, LevelIdentifier(o.price, o.side))
       /\ pre' = b
       /\ order' = o
       /\ trade_log' = <<>>
       /\ IF a = "Ok"
          THEN pc' = "match_order" /\ ret' = Ret(op, "pending", old, o.order_id)
          ELSE pc' = "returned" /\ ret' = Ret(op, a, old, o.order_id)

\* the entry of add_order on book b (lines 180-211): the admission, then either
\* the early return of the error or the start of the sweep
EnterAddOrder(b, o, op, old) ==
    LET a == admission(b, o)
    IN /\ bids' = b.bids
       /\ asks' = b.asks
       /\ orders' = b.orders
       /\ pre' = b
       /\ order' = o
       /\ trade_log' = <<>>
       /\ IF a = "Ok"
          THEN pc' = "match_order" /\ ret' = Ret(op, "pending", old, o.order_id)
          ELSE pc' = "returned" /\ ret' = Ret(op, a, old, o.order_id)

AddOrder ==
    /\ pc = "idle"
    /\ \E t \in OrderType, id \in Ids, s \in Side, p \in Prices, q \in Qtys :
          EnterAddOrder(Book, Order(t, id, s, p, q), "add_order", NoOrder)

\* one pass through the loop of match_order that stays in the loop
MatchOrderLoop ==
    /\ pc = "match_order"
    /\ LET r == match_order_iter(Book, order, trade_log)
       IN /\ ~r.done
          /\ bids' = r.bids
          /\ asks' = r.asks
          /\ orders' = r.orders
          /\ order' = r.order
          /\ trade_log' = r.trade_log
          /\ pc' = IF r.panic THEN "aborted" ELSE "match_order"
          /\ ret' = IF r.panic THEN [ret EXCEPT !.res = "panic"] ELSE ret
          /\ UNCHANGED pre

\* the loop of match_order is left; add_order rests the remainder and returns
AddOrderReturn ==
    /\ pc = "match_order"
    /\ LET r == match_order_iter(Book, order, trade_log)
           b == rest([bids |-> r.bids, asks |-> r.asks, orders |-> r.orders], r.order)
       IN /\ r.done
          /\ bids' = b.bids
          /\ asks' = b.asks
          /\ orders' = b.orders
          /\ pc' = "returned"
          /\ ret' = [ret EXCEPT !.res = "Ok"]
          /\ UNCHANGED <<order, trade_log, pre>>

CancelOrder ==
    /\ pc = "idle"
    /\ \E id \in Ids :
          LET c == cancel_order(Book, id)
          IN /\ bids' = c.book.bids
             /\ asks' = c.book.asks
             /\ orders' = c.book.orders
             /\ pre' = Book
             /\ order' = NoOrder
             /\ trade_log' = <<>>
             /\ ret' = Ret("cancel_order", c.res, c.val, id)
             /\ pc' = IF c.res = "panic" THEN "aborted" ELSE "returned"

ModifyOrder ==
    /\ pc = "idle"
    /\ \E id \in Ids, s \in Side, p \in Prices, q \in Qtys :
          LET m == [order_id |-> id, side |-> s, price |-> p, quantity |-> q]
              c == cancel_order(Book, id)
          IN IF c.res = "Ok"
             THEN EnterAddOrder(c.book, to_order(m, c.val.order_type), "modify_order", c.val)
             ELSE /\ UNCHANGED <<bids, asks, orders>>
                  /\ pre' = Book
                  /\ order' = NoOrder
                  /\ trade_log' = <<>>
                  /\ ret' = Ret("modify_order", c.res, NoOrder, id)
                  /\ pc' = IF c.res = "panic" THEN "aborted" ELSE "returned"

\* the caller is done with the returned value (main.rs drops each result before
\* the next call); the book alone carries over to the next call
DropResult ==
    /\ pc = "returned"
    /\ pc' = "idle"
    /\ order' = NoOrder
    /\ trade_log' = <<>>
    /\ ret' = Ret("none", "none", NoOrder, 0)
    /\ pre' = NewBook
    /\ UNCHANGED <<bids, asks, orders>>

Next ==
    \/ AddOrder
    \/ MatchOrderLoop
    \/ AddOrderReturn
    \/ CancelOrder
    \/ ModifyOrder
    \/ DropResult

Spec == Init /\ [][Next]_vars

\* ======================================================== the claims
\* Helpers of the claims: how a book is looked at from outside.
Levels(b, side) == IF side = "Bid" THEN b.bids ELSE b.asks
Opposite(side) == IF side = "Bid" THEN "Ask" ELSE "Bid"

\* every place of a book that holds an order: <<collection, price, index in the queue>>
Places(b) ==
    {<<s, p, i>> \in Side \X Prices \X (1..(2 * MaxId)) :
        p \in DOMAIN Levels(b, s) /\ i <= Len(Levels(b, s)[p])}
At(b, pl) == Levels(b, pl[1])[pl[2]][pl[3]]
PlacesOf(b, id) == {pl \in Places(b) : At(b, pl).order_id = id}

\* no call is running: every call made so far has returned
Quiescent == pc \in {"idle", "returned"}
\* the call that has just returned ran add_order (directly or from modify_order)
AddReturned == pc = "returned" /\ ret.op \in {"add_order", "modify_order"}
                               /\ ret.res \notin {"OrderNotFound"}
AddSucceeded == AddReturned /\ ret.res = "Ok"

\* C1: after any sequence of add_order, cancel_order and modify_order calls that
\* have returned, an id is a key of the Index iff exactly one order with that id
\* sits in exactly one price level, that level being the one on the side and at
\* the price the Index records; so order_count is the number of orders held.
C1_IndexAgreesWithLevels ==
    Quiescent =>
        /\ \A id \in Ids :
              /\ id \in DOMAIN orders <=> Cardinality(PlacesOf(Book, id)) = 1
              /\ id \in DOMAIN orders =>
                    \A pl \in PlacesOf(Book, id) :
                        orders[id] = LevelIdentifier(pl[2], pl[1])
        /\ Cardinality(DOMAIN orders) = Cardinality(Places(Book))

\* C2: every add_order call terminates.  The loop of match_order is a function
\* of (bids, asks, orders, order, trade_log) alone, so a pass that stays in the
\* loop and leaves all five as they were is repeated for ever: termination
\* requires that no reachable pass is such a fixed point.  Stated for incoming
\* orders of quantity >= 1.
C2_SweepTerminates ==
    (pc = "match_order" /\ order.initial_quantity >= 1) =>
        LET r == match_order_iter(Book, order, trade_log)
        IN r.done \/ r.panic
           \/ <<r.bids, r.asks, r.orders, r.order, r.trade_log>>
                 # <<bids, asks, orders, order, trade_log>>

\* an add_order call (direct or from modify_order) that was admitted: sweeping or returned
Admitted == pc \in {"match_order", "returned"} /\ ret.op \in {"add_order", "modify_order"}
                                              /\ ret.res \in {"pending", "Ok"}

RECURSIVE TradedWith(_, _, _)
\* the quantity traded against maker id in the first n trades of a log
TradedWith(log, n, id) ==
    IF n = 0 THEN 0
    ELSE TradedWith(log, n - 1, id)
         + (IF log[n].maker_order_id = id THEN log[n].quantity ELSE 0)

RECURSIVE TradedAt(_, _, _)
\* the quantity traded at price p in the first n trades of a log
TradedAt(log, n, p) ==
    IF n = 0 THEN 0
    ELSE TradedAt(log, n - 1, p) + (IF log[n].price = p THEN log[n].quantity ELSE 0)

\* for resting orders of one side, price p1 has priority over price p2
Better(side, p1, p2) == IF side = "Ask" THEN p1 < p2 ELSE p1 > p2

\* the order at place x goes before the order at place m: same side and a strictly
\* better price, or same side and the same queue at an earlier position
Ahead(b, x, m) ==
    /\ At(b, x).side = At(b, m).side
    /\ \/ Better(At(b, m).side, At(b, x).price, At(b, m).price)
       \/ (x[1] = m[1] /\ x[2] = m[2] /\ x[3] < m[3])

\* C3: the trade log of one add_order call respects price-time priority: trade
\* prices run from the best opposite price toward worse ones, and no resting
\* order is traded against while another resting order of the same side with a
\* strictly better price, or earlier in the same level, still has quantity left.
C3_PriceTimePriority ==
    Admitted =>
        \A k \in 1..Len(trade_log) :
            LET t == trade_log[k]
            IN /\ PlacesOf(pre, t.maker_order_id) # {}
               /\ k > 1 => IF order.side = "Bid" THEN trade_log[k - 1].price <= t.price
                                                 ELSE trade_log[k - 1].price >= t.price
               /\ \A m \in PlacesOf(pre, t.maker_order_id) :
                     \A x \in Places(pre) :
                         Ahead(pre, x, m) =>
                            At(pre, x).remaining_quantity
                               = TradedWith(trade_log, k - 1, At(pre, x).order_id)

RECURSIVE Consume(_, _)
\* a queue after quantity c was traded against it from the front
Consume(q, c) ==
    IF q = <<>> \/ c = 0 THEN q
    ELSE IF Head(q).remaining_quantity <= c
         THEN Consume(Tail(q), c - Head(q).remaining_quantity)
         ELSE <<[Head(q) EXCEPT !.remaining_quantity = @ - c]>> \o Tail(q)

\* C4: when the incoming order is fully filled before the level it trades against
\* is exhausted, add_order returns Filled and the rest of that level stays on
\* its own side at the same price (partly filled maker in front, reduced by what
\* was traded; later makers as they were; filled makers gone from book and
\* Index), and every level that holds orders and was not traded against is unchanged.
C4_LeftoverLevelKept ==
    (AddSucceeded /\ trade_log # <<>> /\ is_filled(order)) =>
        LET n == Len(trade_log)
            lp == trade_log[n].price
            opp == Opposite(order.side)
            q == Levels(pre, opp)[lp]
            traded == TradedAt(trade_log, n, lp)
        IN SumQty(q) > traded =>
              /\ order_state(order) = <<"Filled">>
              /\ lp \in DOMAIN Levels(Book, opp)
              /\ Levels(Book, opp)[lp] = Consume(q, traded)
              /\ \A i \in 1..Len(q) :
                    (\A j \in 1..Len(Consume(q, traded)) :
                         Consume(q, traded)[j].order_id # q[i].order_id)
                    => q[i].order_id \notin DOMAIN orders
                       /\ PlacesOf(Book, q[i].order_id) = {}
              /\ \A s \in Side : \A p \in DOMAIN Levels(pre, s) :
                    (Levels(pre, s)[p] # <<>> /\ (s # opp \/ TradedAt(trade_log, n, p) = 0))
                    => /\ p \in DOMAIN Levels(Book, s)
                       /\ Levels(Book, s)[p] = Levels(pre, s)[p]

\* C5: an add_order call that returns UnfillableOrder or DuplicateOrderId is a
\* no-op: bids, asks and the Index are as before the call, order_count is
\* unchanged and no trade is emitted.
C5_FailedAddIsNoOp ==
    (AddReturned /\ ret.res \in {"UnfillableOrder", "DuplicateOrderId"}) =>
        /\ bids = pre.bids
        /\ asks = pre.asks
        /\ orders = pre.orders
        /\ Cardinality(DOMAIN orders) = Cardinality(DOMAIN pre.orders)
        /\ trade_log = <<>>

\* a FillOrKill bid of quantity 2 is refused while an ask level holding 1 rests
\* within its limit
C5_Witness ==
    /\ AddReturned
    /\ ret.res = "UnfillableOrder"
    /\ order.order_type = "FillOrKill"
    /\ order.side = "Bid"
    /\ order.initial_quantity = 2
    /\ \E p \in DOMAIN pre.asks : p <= order.price /\ SumQty(pre.asks[p]) = 1

\* a level price p is acceptable to an incoming order of this side with this limit
Crosses(side, limit, p) == IF side = "Bid" THEN p <= limit ELSE p >= limit

RECURSIVE SumLevels(_, _)
\* the total remaining quantity of the levels of a collection at the prices S
SumLevels(levels, S) ==
    IF S = {} THEN 0
    ELSE LET p == CHOOSE x \in S : TRUE
         IN SumQty(levels[p]) + SumLevels(levels, S \ {p})

\* what the opposite collection holds at prices acceptable to (side, limit)
QualifyingLiquidity(b, side, limit) ==
    LET levels == Levels(b, Opposite(side))
    IN SumLevels(levels, {p \in DOMAIN levels : Crosses(side, limit, p)})

RECURSIVE SumPlaces(_, _)
SumPlaces(b, S) ==
    IF S = {} THEN 0
    ELSE LET pl == CHOOSE x \in S : TRUE
         IN At(b, pl).remaining_quantity + SumPlaces(b, S \ {pl})

\* the remaining quantity of the resting orders of the opposite side (orders
\* submitted with the opposite side) at prices acceptable to (side, limit)
OppositeSideLiquidity(b, side, limit) ==
    SumPlaces(b, {pl \in Places(b) : /\ At(b, pl).side = Opposite(side)
                                     /\ Crosses(side, limit, At(b, pl).price)})

\* C6: can_fully_fill(price, quantity, side) returns false only when the total
\* remaining quantity over all opposite levels at qualifying prices is strictly
\* less than quantity, whatever non-qualifying levels the opposite side also
\* holds; hence a FillOrKill order is refused only for lack of such liquidity.
\* Stated for quantities >= 1.
C6_FalseOnlyIfInsufficient ==
    /\ pc = "idle" =>
          \A s \in Side, p \in Prices, q \in 1..MaxQty :
              ~can_fully_fill(Book, p, q, s) => QualifyingLiquidity(Book, s, p) < q
    /\ (/\ AddReturned
        /\ order.order_type = "FillOrKill"
        /\ order.initial_quantity >= 1
        /\ ret.res = "UnfillableOrder")
          => QualifyingLiquidity(pre, order.side, order.price) < order.initial_quantity

\* C7: a FillOrKill order is admitted only if the remaining quantity of the
\* resting orders of the opposite side at acceptable prices is at least the
\* order's quantity; otherwise add_order fails with UnfillableOrder.
C7_FillOrKillAdmission ==
    ((AddReturned \/ Admitted) /\ order.order_type = "FillOrKill") =>
        IF OppositeSideLiquidity(pre, order.side, order.price) >= order.initial_quantity
        THEN ret.res \in {"pending", "Ok", "UnfillableOrder"}
        ELSE ret.res = "UnfillableOrder"

\* C8: a FillAndKill order is admitted only if some order rests on the opposite
\* side at a price crossing its limit; otherwise add_order fails with
\* UnfillableOrder.  Stated for quantities >= 1.
C8_FillAndKillAdmission ==
    ((AddReturned \/ Admitted) /\ order.order_type = "FillAndKill"
                               /\ order.initial_quantity >= 1) =>
        IF \E pl \in Places(pre) : /\ pl[1] = Opposite(order.side)
                                   /\ Crosses(order.side, order.price, pl[2])
        THEN ret.res \in {"pending", "Ok"}
        ELSE ret.res = "UnfillableOrder"

\* the order add_order worked on is held somewhere in the book
Placed(b, o) == \E pl \in Places(b) : At(b, pl) = o

\* the incoming order was appended at the back of the level of its own side and
\* price, all other levels of that side being as before the call, and the Index
\* maps its id to that level
Rested(o) ==
    LET own == Levels(Book, o.side)
        was == Levels(pre, o.side)
    IN /\ o.price \in DOMAIN own
       /\ own[o.price] = Append(IF o.price \in DOMAIN was THEN was[o.price] ELSE <<>>, o)
       /\ DOMAIN own = DOMAIN was \cup {o.price}
       /\ \A p \in DOMAIN was \ {o.price} : own[p] = was[p]
       /\ o.order_id \in DOMAIN orders
       /\ orders[o.order_id] = LevelIdentifier(o.price, o.side)

\* C9: after a successful add_order the incoming order rests (appended at the
\* back of the level of its own side and price, its id entered in the Index) iff
\* it is not fully filled and its type is GoodTillCancel, GoodForDay or Market;
\* a FillAndKill or FillOrKill order is never placed in a level and no Index
\* entry is added for it, whatever remainder it has.
C9_RestingDecision ==
    AddSucceeded =>
        /\ Rested(order) <=>
              (/\ ~is_filled(order)
               /\ order.order_type \in {"GoodTillCancel", "GoodForDay", "Market"})
        /\ Placed(Book, order) => Rested(order)
        /\ order.order_type \in {"FillAndKill", "FillOrKill"} =>
              /\ ~Placed(Book, order)
              /\ DOMAIN orders \subseteq DOMAIN pre.orders
              /\ \A id \in DOMAIN orders : orders[id] = pre.orders[id]

\* a Market order that traded 1 and kept a remainder rests alone in a new level
C9_Witness ==
    /\ AddSucceeded
    /\ order.order_type = "Market"
    /\ order_state(order) = <<"PartialFill", 1>>
    /\ Rested(order)
    /\ Len(Levels(Book, order.side)[order.price]) = 1

\* C10: cancel_order(id) succeeds exactly when id is in the Index: it returns
\* the order with that id, removed from its level and from the Index, all other
\* orders untouched; when id is not in the Index it returns OrderNotFound and
\* changes nothing.  It never aborts on an id that is in the Index.
C10_CancelOrder ==
    (pc \in {"returned", "aborted"} /\ ret.op = "cancel_order") =>
        IF ret.id \in DOMAIN pre.orders
        THEN /\ ret.res = "Ok"
             /\ ret.val.order_id = ret.id
             /\ PlacesOf(pre, ret.id) # {}
             /\ PlacesOf(Book, ret.id) = {}
             /\ orders = remove(pre.orders, ret.id)
             /\ \A s \in Side : \A p \in DOMAIN Levels(pre, s) :
                   /\ p \in DOMAIN Levels(Book, s)
                   /\ LET was == Levels(pre, s)[p]
                          kept == {i \in 1..Len(was) : was[i].order_id # ret.id}
                      IN /\ Len(Levels(Book, s)[p]) = Cardinality(kept)
                         /\ \A i \in kept :
                               Levels(Book, s)[p][Cardinality({j \in kept : j <= i})]
                                  = was[i]
        ELSE /\ ret.res = "OrderNotFound"
             /\ Book = pre

\* C11: for every GoodTillCancel order (id not in the Index; any side, price and
\* quantity Order::new accepts) added when no opposite-side liquidity crosses
\* its limit, a cancel_order of its id right after the add succeeds and returns
\* an order with the same id, side, price and initial_quantity and with
\* remaining_quantity = initial_quantity.  The cancel is the one the book as
\* add_order left it would perform.
C11_AddThenCancel ==
    (/\ pc = "returned"
     /\ ret.op = "add_order"
     /\ order.order_type = "GoodTillCancel"
     /\ order.order_id \notin DOMAIN pre.orders
     /\ OppositeSideLiquidity(pre, order.side, order.price) = 0) =>
        /\ ret.res = "Ok"
        /\ LET c == cancel_order(Book, order.order_id)
           IN /\ c.res = "Ok"
              /\ c.val.order_id = order.order_id
              /\ c.val.side = order.side
              /\ c.val.price = order.price
              /\ c.val.initial_quantity = order.initial_quantity
              /\ c.val.remaining_quantity = c.val.initial_quantity

\* the same, for quantities >= 1 only
C11_AddThenCancelPositive ==
    order.initial_quantity >= 1 => C11_AddThenCancel

\* C12: add_order of a GoodTillCancel, GoodForDay or Market order whose id is in
\* the Index fails with DuplicateOrderId, whether or not liquidity crosses, and
\* before any matching (no trade, book untouched); for FillAndKill and
\* FillOrKill orders the duplicate check is not applied: they never get
\* DuplicateOrderId, and a FillAndKill order is admitted exactly when some
\* level of the opposite collection crosses its limit, whatever its id.
C12_DuplicateCheck ==
    ((AddReturned \/ Admitted) /\ ret.op = "add_order") =>
        /\ order.order_type \in {"GoodTillCancel", "GoodForDay", "Market"} =>
              IF order.order_id \in DOMAIN pre.orders
              THEN /\ ret.res = "DuplicateOrderId"
                   /\ trade_log = <<>>
                   /\ Book = pre
              ELSE ret.res \in {"pending", "Ok"}
        /\ order.order_type \in {"FillAndKill", "FillOrKill"} =>
              ret.res \in {"pending", "Ok", "UnfillableOrder"}
        /\ order.order_type = "FillAndKill" =>
              (ret.res \in {"pending", "Ok"} <=>
                  \E p \in DOMAIN Levels(pre, Opposite(order.side)) :
                      Crosses(order.side, order.price, p))

\* a Market order reusing a resting id is refused although an ask within its
\* limit could have filled it
C12_Witness ==
    /\ AddReturned
    /\ ret.res = "DuplicateOrderId"
    /\ order.order_type = "Market"
    /\ order.side = "Bid"
    /\ order.initial_quantity >= 1
    /\ \E pl \in Places(pre) : pl[1] = "Ask" /\ pl[2] <= order.price


\* C13: modify_order is cancel-then-readmit: for an id that is not in the Index
\* it returns OrderNotFound and leaves the book as it was; for an id in the
\* Index it removes the old order and goes on to re-admit a new order with the
\* old order's type and the caller's side, price and quantity, and it never
\* ends in an error once the old order is gone (pre is the book at the call
\* when the cancel failed, and the book right after the cancel otherwise).
C13_ModifyOrder ==
    (ret.op = "modify_order" /\ pc \in {"match_order", "returned", "aborted"}) =>
        /\ ret.res \in {"OrderNotFound", "pending", "Ok"}
        /\ ret.res = "OrderNotFound" =>
              /\ ret.id \notin DOMAIN pre.orders
              /\ Book = pre
        /\ ret.res \in {"pending", "Ok"} =>
              /\ ret.val.order_id = ret.id
              /\ PlacesOf(pre, ret.id) = {}
              /\ ret.id \notin DOMAIN pre.orders
              /\ order.order_id = ret.id
              /\ order.order_type = ret.val.order_type
              /\ order.initial_quantity \in Qtys


\* the orders the book holds in its levels, and the incoming order of a call
HeldOrders(b) == {At(b, pl) : pl \in Places(b)}
WithinQuantity(o) == 0 <= o.remaining_quantity /\ o.remaining_quantity <= o.initial_quantity

\* every order satisfies 0 <= remaining <= initial, and an order held in a
\* level has remaining >= 1
C14_QuantityBounds ==
    /\ WithinQuantity(order)
    /\ WithinQuantity(ret.val)
    /\ \A o \in HeldOrders(Book) : WithinQuantity(o) /\ o.remaining_quantity >= 1

\* from one state to the next no order's remaining quantity goes up: not that
\* of an order held in a level before and after the step, nor that of the
\* incoming order while its call runs
C14_NeverIncreases ==
    /\ \A o \in HeldOrders(Book) : \A n \in HeldOrders(Book)' :
          n.order_id = o.order_id =>
              /\ n.remaining_quantity <= o.remaining_quantity
              /\ n.initial_quantity = o.initial_quantity
    /\ pc = "match_order" =>
          /\ order'.order_id = order.order_id
          /\ order'.initial_quantity = order.initial_quantity
          /\ order'.remaining_quantity <= order.remaining_quantity

\* C14: every order satisfies 0 <= remaining_quantity <= initial_quantity, its
\* remaining_quantity never increases from one state to the next, and every
\* order held in a price level has remaining_quantity >= 1.
C14_RemainingQuantity == [](C14_QuantityBounds) /\ [][C14_NeverIncreases]_vars

\* a resting order has been partly filled and is still held in its level
C14_Witness ==
    /\ pc = "match_order"
    /\ \E o \in HeldOrders(Book) : \E old \in HeldOrders(pre) :
          /\ old.order_id = o.order_id
          /\ o.remaining_quantity >= 1
          /\ o.remaining_quantity < old.remaining_quantity


RECURSIVE Traded(_, _)
\* the quantity of the first n trades of a log
Traded(log, n) == IF n = 0 THEN 0 ELSE Traded(log, n - 1) + log[n].quantity

\* C15: every trade of a call pairs the incoming order (its taker id) with the
\* order that is then at the front of its level (its maker id), for the smaller
\* of the two remaining quantities at that moment, at the price of that level,
\* which is the maker's own price and is within the taker's limit.  The
\* remaining quantities at trade k are those at the start of the call less
\* what trades 1..k-1 took.
C15_TradeContents ==
    Admitted =>
        \A k \in 1..Len(trade_log) :
            LET t == trade_log[k]
                taker_remaining == order.initial_quantity - Traded(trade_log, k - 1)
            IN /\ t.taker_order_id = order.order_id
               /\ Crosses(order.side, order.price, t.price)
               /\ \E m \in PlacesOf(pre, t.maker_order_id) :
                     LET maker == At(pre, m)
                         maker_remaining ==
                             maker.remaining_quantity
                                 - TradedWith(trade_log, k - 1, maker.order_id)
                     IN /\ t.quantity = min(maker_remaining, taker_remaining)
                        /\ t.price = m[2]
                        /\ t.price = maker.price
                        /\ \A x \in Places(pre) :
                              (x[1] = m[1] /\ x[2] = m[2] /\ x[3] < m[3]) =>
                                  TradedWith(trade_log, k - 1, At(pre, x).order_id)
                                      = At(pre, x).remaining_quantity

\* a sweep has made two trades, the second against an order that was not at the
\* front of its level when the call began
C15_Witness ==
    /\ Admitted
    /\ Len(trade_log) = 2
    /\ \E m \in PlacesOf(pre, trade_log[2].maker_order_id) : m[3] = 2


\* C16: QuantityTooBig cannot be reached through the Orderbook: every fill made
\* while matching is called with a quantity that is at most the order's
\* remaining quantity, so neither unwrap in match_level fails: no pass of the
\* sweep aborts, an aborted call never has an incoming order in matching, and
\* every recorded trade is for at most what taker and maker had left.
C16_NoQuantityTooBig ==
    /\ pc = "match_order" => ~match_order_iter(Book, order, trade_log).panic
    /\ pc = "aborted" => order = NoOrder /\ trade_log = <<>>
    /\ Admitted =>
          \A k \in 1..Len(trade_log) :
              /\ Traded(trade_log, k) <= order.initial_quantity
              /\ \E m \in PlacesOf(pre, trade_log[k].maker_order_id) :
                    TradedWith(trade_log, k, trade_log[k].maker_order_id)
                        <= At(pre, m).remaining_quantity

\* a sweep that has already traded is about to call fill again: its next pass
\* makes a further trade
C16_Witness ==
    /\ pc = "match_order"
    /\ trade_log # <<>>
    /\ Len(match_order_iter(Book, order, trade_log).trade_log) > Len(trade_log)


\* C17: the book is never crossed: after any sequence of calls that have
\* returned, every price key of the bid collection is strictly less than every
\* price key of the ask collection.
C17_NeverCrossed ==
    Quiescent => \A b \in DOMAIN bids : \A a \in DOMAIN asks : b < a


\* an order has traded against the best opposite level, rested its remainder,
\* and both collections hold a level when its call returns
C17_Witness ==
    /\ AddSucceeded
    /\ trade_log # <<>>
    /\ Placed(Book, order)
    /\ DOMAIN bids # {}
    /\ DOMAIN asks # {}

\* in every trade of a call the maker was, when the call began, a resting order
\* submitted on the side opposite to the taker's
C18_MakerOfOppositeSide ==
    Admitted =>
        \A k \in 1..Len(trade_log) :
            \E m \in PlacesOf(pre, trade_log[k].maker_order_id) :
                At(pre, m).side = Opposite(order.side)

\* C18: in every trade the maker is a resting order of the side opposite to the
\* taker's, and, once calls have returned, every order stored in the bid
\* collection has side Bid and every order stored in the ask collection has
\* side Ask.
C18_SidesKept ==
    /\ Quiescent => \A pl \in Places(Book) : At(Book, pl).side = pl[1]
    /\ C18_MakerOfOppositeSide


\* what C19 says of a FillOrKill add_order of quantity >= 1 that has returned:
\* it failed with UnfillableOrder, no trade and no change of the book, or it
\* returned Filled with trades summing to exactly its quantity
C19_ReturnedAllOrNothing ==
    (/\ pc = "returned"
     /\ ret.op = "add_order"
     /\ order.order_type = "FillOrKill"
     /\ order.initial_quantity >= 1) =>
        \/ /\ ret.res = "UnfillableOrder"
           /\ trade_log = <<>>
           /\ Book = pre
        \/ /\ ret.res = "Ok"
           /\ order_state(order) = <<"Filled">>
           /\ Traded(trade_log, Len(trade_log)) = order.initial_quantity

\* C19: FillOrKill is all-or-nothing: every add_order call with a FillOrKill
\* order of quantity >= 1 either fails with UnfillableOrder, no trade and no book
\* change, or returns Filled with trade quantities summing to its quantity; it
\* never returns PartialFill or Unfilled.  Each such call has to come to one of
\* the two ends, so no pass of its sweep may stay in the loop with bids, asks,
\* orders, order and trade_log all as they were (such a pass repeats for ever).
C19_FillOrKillAllOrNothing ==
    /\ C19_ReturnedAllOrNothing
    /\ (/\ pc = "match_order"
        /\ ret.op = "add_order"
        /\ order.order_type = "FillOrKill"
        /\ order.initial_quantity >= 1) =>
           LET r == match_order_iter(Book, order, trade_log)
           IN r.done \/ r.panic
              \/ <<r.bids, r.asks, r.orders, r.order, r.trade_log>>
                    # <<bids, asks, orders, order, trade_log>>


\* where the incoming order sits if the call rested it: the back of the level
\* of its own side and price
TakerPlace ==
    IF Placed(Book, order) /\ is_resting_type(order.order_type) /\ ~is_filled(order)
    THEN {<<order.side, order.price, Len(Levels(Book, order.side)[order.price])>>}
    ELSE {}

\* what the order that was at place pl when the call began has left now; 0 if
\* it is no longer held (the order just rested by the call does not count)
RemainingNow(pl) ==
    LET now == {q \in Places(Book) \ TakerPlace :
                    At(Book, q).order_id = At(pre, pl).order_id}
    IN IF now = {} THEN 0 ELSE At(Book, CHOOSE q \in now : TRUE).remaining_quantity

RECURSIVE TotalDecrease(_)
\* the decrease of remaining quantity summed over the orders at the places S of
\* the book as it was when the call began
TotalDecrease(S) ==
    IF S = {} THEN 0
    ELSE LET pl == CHOOSE x \in S : TRUE
         IN (At(pre, pl).remaining_quantity - RemainingNow(pl)) + TotalDecrease(S \ {pl})

\* C20: quantity is conserved: for every successful add_order the trade
\* quantities sum to the incoming order's initial quantity less its final
\* remaining quantity (order_state being Unfilled, PartialFill(sum) or Filled
\* accordingly), and to the total decrease of remaining quantity over the
\* resting orders, an order removed as filled counting for all it had left.
C20_QuantityConserved ==
    AddSucceeded =>
        LET sum == Traded(trade_log, Len(trade_log))
        IN /\ sum = order.initial_quantity - order.remaining_quantity
           /\ order_state(order) =
                 IF sum = 0 THEN <<"Unfilled">>
                 ELSE IF order.remaining_quantity = 0 THEN <<"Filled">>
                 ELSE <<"PartialFill", sum>>
           /\ sum = TotalDecrease(Places(pre))
           /\ \A pl \in Places(pre) :
                 Cardinality({q \in Places(Book) \ TakerPlace :
                                 At(Book, q).order_id = At(pre, pl).order_id}) <= 1

\* a call has returned PartialFill after filling a resting order entirely, that
\* order being gone from the book
C20_Witness ==
    /\ AddSucceeded
    /\ order_state(order)[1] = "PartialFill"
    /\ \E pl \in Places(pre) : RemainingNow(pl) = 0

====
